---- MODULE Spec2Model ----
(***************************************************************************)
(* Model of pkg/cloud/scope/machine.go: the MachineScope built for one     *)
(* reconcile iteration around an AWSMachine, its setters and accessors,    *)
(* and Close, which hands the record to the patch helper created in        *)
(* NewMachineScope.                                                        *)
(*                                                                         *)
(* The packages machine.go imports are modelled by what they do at the     *)
(* version it imports (cluster-api v1alpha2):                              *)
(*   patch.NewHelper / Helper.Patch   sigs.k8s.io/cluster-api/util/patch   *)
(*   noderefutil.NewProviderID        .../controllers/noderefutil          *)
(*   util.IsControlPlaneMachine       sigs.k8s.io/cluster-api/util         *)
(* infrav1.Tags.Merge (api/v1alpha2 of this repository) is modelled from   *)
(* the specification's description of the merge.                           *)
(***************************************************************************)
EXTENDS Naturals, Sequences, FiniteSets, TLC

VARIABLES
    store,         \* the AWSMachine held by the API server
    machine,       \* params.AWSMachine / m.AWSMachine: the in-memory record
    before,        \* patchHelper: <<>> until created, then <<snapshot>>
    scope,         \* "none", "open" once NewMachineScope succeeds, "closed"
    awsCluster,    \* m.AWSCluster
    ownerMachine,  \* m.Machine
    lastOp,        \* the last call: [op |-> name, arg |-> its arguments]
    ret,           \* what the last call returned
    storeAtClose,  \* the store as the last Close found it
    concurrent,    \* another actor wrote between the snapshot and Close
    nOther,        \* writes of other actors so far
    nSet,          \* setter calls on the scope so far
    calls          \* history, kept by SpecCommit: the setter calls in order

vars == <<store, machine, before, scope, awsCluster, ownerMachine, lastOp, ret,
          storeAtClose, concurrent, nOther, nSet, calls>>

(* ------------------------------- bounds ------------------------------- *)

MaxOtherWrites == 1
MaxSetters == 3
MaxLen == 5

(* ------------------------- optional values, maps ---------------------- *)

\* A Go pointer field: nil or a value.
None == <<>>
Some(v) == <<v>>

\* A Go map: nil, or a (possibly empty) set of key/value pairs.
EmptyKV == [k \in {} |-> ""]
NilMap == [isNil |-> TRUE, kv |-> EmptyKV]
EmptyMap == [isNil |-> FALSE, kv |-> EmptyKV]
MapOf(f) == [isNil |-> FALSE, kv |-> f]
MapPut(m, k, v) ==
    [isNil |-> FALSE,
     kv |-> [x \in (DOMAIN m.kv) \cup {k} |-> IF x = k THEN v ELSE m.kv[x]]]
Has(m, k) == k \in DOMAIN m.kv

(* ------------------------------ domains ------------------------------- *)

Keys == {"k1", "k2"}
Vals == {"v1", "v2"}
OtherVal == "vo"
InstanceStates == {"running", "stopping"}
ErrorReasons == {"CreateError"}
ErrorMessages == {"boom"}
AddressLists == {<<>>, <<"a1">>, <<"a2">>}

\* Provider IDs are strings, modelled as sequences of characters.
Chars == {"a", ":", "/"}
PidGood == <<"a", ":", "/", "/", "/", "z", "/", "i">>
PidOther == <<"a", ":", "/", "/", "j">>
PidBad == <<"a", "/", "i">>
ProviderIDs == {PidGood, PidBad}

TagKeys == {"env", "team"}
TagVals == {"prod", "dev"}
ClusterTagsExample == MapOf([k \in {"env", "team"} |-> IF k = "env" THEN "prod" ELSE "x"])
MachineTagsExample == MapOf([k \in {"env"} |-> "dev"])

\* util: MachineControlPlaneLabelName
ControlPlaneLabel == "cluster.x-k8s.io/control-plane"

BlankRecord ==
    [name |-> "m1", namespace |-> "ns", annotations |-> NilMap,
     providerID |-> None, additionalTags |-> MachineTagsExample,
     instanceState |-> None, ready |-> FALSE, errorReason |-> None,
     errorMessage |-> None, addresses |-> <<>>]
PopulatedRecord ==
    [name |-> "m1", namespace |-> "ns",
     annotations |-> MapOf([k \in {"k1"} |-> "v1"]),
     providerID |-> Some(PidGood), additionalTags |-> MachineTagsExample,
     instanceState |-> Some("pending"), ready |-> FALSE, errorReason |-> None,
     errorMessage |-> None, addresses |-> <<"a1">>]
InitRecords == {BlankRecord, PopulatedRecord}

\* The required inputs of MachineScopeParams, in the order they are checked.
Inputs == <<"client", "machine", "cluster", "aws machine", "aws cluster">>
InputSets == SUBSET {Inputs[i] : i \in 1..Len(Inputs)}

(* ----------------- noderefutil.NewProviderID (imported) ---------------- *)

\* strings.Index / strings.LastIndex, 1-based, 0 when absent.
Index(s, c) ==
    IF \E i \in 1..Len(s) : s[i] = c
    THEN CHOOSE i \in 1..Len(s) : s[i] = c /\ \A j \in 1..(i - 1) : s[j] # c
    ELSE 0
LastIndex(s, c) ==
    IF \E i \in 1..Len(s) : s[i] = c
    THEN CHOOSE i \in 1..Len(s) : s[i] = c /\ \A j \in (i + 1)..Len(s) : s[j] # c
    ELSE 0

\* providerIDRegex: ^[^:]+://.*$
MatchesProviderIDRegex(s) ==
    \E n \in 1..Len(s) :
        /\ \A j \in 1..n : s[j] # ":"
        /\ Len(s) >= n + 3
        /\ s[n + 1] = ":" /\ s[n + 2] = "/" /\ s[n + 3] = "/"

\* [err |-> TRUE] or [err |-> FALSE, cloudProvider, id].
NewProviderID(id) ==
    IF id = <<>> THEN [err |-> TRUE, cloudProvider |-> <<>>, id |-> <<>>]
    ELSE IF ~MatchesProviderIDRegex(id)
    THEN [err |-> TRUE, cloudProvider |-> <<>>, id |-> <<>>]
    ELSE LET colonIndex == Index(id, ":")
             cloudProvider == SubSeq(id, 1, colonIndex - 1)
             lastSlashIndex == LastIndex(id, "/")
             instance == SubSeq(id, lastSlashIndex + 1, Len(id))
         IN  IF cloudProvider # <<>> /\ instance # <<>>
             THEN [err |-> FALSE, cloudProvider |-> cloudProvider, id |-> instance]
             ELSE [err |-> TRUE, cloudProvider |-> <<>>, id |-> <<>>]

(* ---------------- util.IsControlPlaneMachine (imported) ---------------- *)

\* machine.ObjectMeta.Labels[MachineControlPlaneLabelName] != ""
IsControlPlaneMachine(m) ==
    Has(m.labels, ControlPlaneLabel) /\ m.labels.kv[ControlPlaneLabel] # ""

(* ------------------------- infrav1.Tags.Merge -------------------------- *)

\* t.Merge(other): every key of other is upserted into t.
Merge(t, other) ==
    [isNil |-> t.isNil,
     kv |-> [k \in (DOMAIN t.kv) \cup (DOMAIN other.kv) |->
                IF Has(other, k) THEN other.kv[k] ELSE t.kv[k]]]

(* ------------- patch.NewHelper / Helper.Patch (imported) --------------- *)

\* omitempty: a nil map and an empty map are both left out of the JSON.
OmitEmpty(m) == IF DOMAIN m.kv = {} THEN NilMap ELSE m

\* runtime.DefaultUnstructuredConverter.ToUnstructured of an AWSMachine.
ToUnstructured(m) ==
    [m EXCEPT !.annotations = OmitEmpty(@), !.additionalTags = OmitEmpty(@)]

\* The object without its "status" field, and the "status" field.
NonStatus(r) ==
    [name |-> r.name, namespace |-> r.namespace, annotations |-> r.annotations,
     providerID |-> r.providerID, additionalTags |-> r.additionalTags]
Status(r) ==
    [instanceState |-> r.instanceState, ready |-> r.ready,
     errorReason |-> r.errorReason, errorMessage |-> r.errorMessage,
     addresses |-> r.addresses]

\* A JSON merge patch from bef to aft, applied to the stored value st:
\* a changed leaf is written, an unchanged one is not in the patch.
PatchLeaf(st, bef, aft) == IF aft # bef THEN aft ELSE st

\* The same for an object of string keys: the patch recurses by key; a map
\* that is gone from aft is deleted as a whole.
PatchMap(st, bef, aft) ==
    IF DOMAIN aft.kv = {} /\ DOMAIN bef.kv # {} THEN NilMap
    ELSE LET Written(k) == Has(aft, k) /\ (~Has(bef, k) \/ bef.kv[k] # aft.kv[k])
             Deleted(k) == Has(bef, k) /\ ~Has(aft, k)
             keep == {k \in (DOMAIN st.kv) \cup (DOMAIN aft.kv) :
                         Written(k) \/ (Has(st, k) /\ ~Deleted(k))}
         IN  OmitEmpty([isNil |-> FALSE,
                        kv |-> [k \in keep |->
                                  IF Written(k) THEN aft.kv[k] ELSE st.kv[k]]])

\* client.Patch(obj, MergeFrom(before)): the main resource ignores status.
ResourcePatch(st, bef, aft) ==
    [st EXCEPT !.annotations = PatchMap(@, bef.annotations, aft.annotations),
               !.providerID = PatchLeaf(@, bef.providerID, aft.providerID),
               !.additionalTags =
                   PatchMap(@, bef.additionalTags, aft.additionalTags)]

\* client.Status().Patch(obj, MergeFrom(before)): only status is written.
StatusPatch(st, bef, aft) ==
    [st EXCEPT !.instanceState = PatchLeaf(@, bef.instanceState, aft.instanceState),
               !.ready = PatchLeaf(@, bef.ready, aft.ready),
               !.errorReason = PatchLeaf(@, bef.errorReason, aft.errorReason),
               !.errorMessage = PatchLeaf(@, bef.errorMessage, aft.errorMessage),
               !.addresses = PatchLeaf(@, bef.addresses, aft.addresses)]

\* Helper.Patch: the resource patch is sent when the object without status
\* differs from the snapshot, the status patch when the status differs; the
\* second is sent whatever the first returned, and the errors are aggregated.
\* resOK and statOK are what the API server answers to each call.
HelperPatch(st, bef, m, resOK, statOK) ==
    LET after == ToUnstructured(m)
        resSent == NonStatus(bef) # NonStatus(after)
        statSent == Status(bef) # Status(after)
        s1 == IF resSent /\ resOK THEN ResourcePatch(st, bef, after) ELSE st
        s2 == IF statSent /\ statOK THEN StatusPatch(s1, bef, after) ELSE s1
    IN  [store |-> s2,
         resErr |-> resSent /\ ~resOK,
         statErr |-> statSent /\ ~statOK]

(* --------------------- MachineScope: pure methods ---------------------- *)

Name(m) == m.name

Namespace(m) == m.namespace

IsControlPlane(owner) == IsControlPlaneMachine(owner)

\* Mutant of Role: it looks for the label itself, whatever its value.
RoleByLabelPresence(owner) ==
    IF Has(owner.labels, ControlPlaneLabel) THEN "control-plane" ELSE "node"

Role(owner) == IF IsControlPlaneMachine(owner) THEN "control-plane" ELSE "node"

\* The string GetProviderID returns; "" is the empty sequence.
GetProviderID(m) == IF m.providerID # None THEN m.providerID[1] ELSE <<>>

\* Mutant of GetInstanceID: the error of NewProviderID is not looked at.
GetInstanceIDIgnoresErr(m) == Some(NewProviderID(GetProviderID(m)).id)

\* A *string: None, or Some of the parsed ID.
GetInstanceID(m) ==
    LET parsed == NewProviderID(GetProviderID(m))
    IN  IF parsed.err THEN None ELSE Some(parsed.id)

SetProviderID(m, v) == [m EXCEPT !.providerID = Some(v)]

GetInstanceState(m) == m.instanceState

SetInstanceState(m, v) == [m EXCEPT !.instanceState = Some(v)]

SetReady(m) == [m EXCEPT !.ready = TRUE]

\* Mutant of SetErrorMessage: it assigns the error reason as well.
SetErrorMessageAndReason(m, v) ==
    [m EXCEPT !.errorMessage = Some(v), !.errorReason = Some("InvalidConfiguration")]

SetErrorMessage(m, v) == [m EXCEPT !.errorMessage = Some(v)]

SetErrorReason(m, v) == [m EXCEPT !.errorReason = Some(v)]

\* Mutant of SetAnnotation: the map is made anew on every call.
SetAnnotationFreshMap(m, key, value) ==
    [m EXCEPT !.annotations = MapPut(EmptyMap, key, value)]

SetAnnotation(m, key, value) ==
    LET annotations == IF m.annotations.isNil THEN EmptyMap ELSE m.annotations
    IN  [m EXCEPT !.annotations = MapPut(annotations, key, value)]

SetAddresses(m, addrs) == [m EXCEPT !.addresses = addrs]

\* Mutant of AdditionalTags: the two merges are in the other order.
AdditionalTagsClusterLast(cluster, m) ==
    Merge(Merge(EmptyMap, m.additionalTags), cluster.additionalTags)

AdditionalTags(cluster, m) ==
    LET tags == EmptyMap
        withCluster == Merge(tags, cluster.additionalTags)
    IN  Merge(withCluster, m.additionalTags)

\* Mutant of FirstMissing: the cluster is checked before the machine.
FirstMissingClusterFirst(given) ==
    IF "client" \notin given THEN "client"
    ELSE IF "cluster" \notin given THEN "cluster"
    ELSE IF "machine" \notin given THEN "machine"
    ELSE IF "aws machine" \notin given THEN "aws machine"
    ELSE IF "aws cluster" \notin given THEN "aws cluster"
    ELSE "none"

\* The first required input that params lacks, in the order of the checks.
FirstMissing(given) ==
    IF "client" \notin given THEN "client"
    ELSE IF "machine" \notin given THEN "machine"
    ELSE IF "cluster" \notin given THEN "cluster"
    ELSE IF "aws machine" \notin given THEN "aws machine"
    ELSE IF "aws cluster" \notin given THEN "aws cluster"
    ELSE "none"

(* ------------------------------ actions -------------------------------- *)

Call(op, arg) == [op |-> op, arg |-> arg]

\* NewMachineScope(params): given is the set of required inputs that are
\* not nil; helperOK is whether patch.NewHelper returns a helper.
OpNewMachineScope ==
    /\ scope = "none"
    /\ \E given \in InputSets, helperOK \in BOOLEAN :
        /\ lastOp' = Call("NewMachineScope", given)
        /\ IF FirstMissing(given) # "none"
           THEN /\ ret' = [scope |-> FALSE, err |-> "required",
                           input |-> FirstMissing(given)]
                /\ UNCHANGED <<before, scope, concurrent>>
           ELSE IF ~helperOK
           THEN /\ ret' = [scope |-> FALSE, err |-> "failed to init patch helper",
                           input |-> "none"]
                /\ UNCHANGED <<before, scope, concurrent>>
           ELSE /\ before' = Some(ToUnstructured(machine))
                /\ scope' = "open"
                /\ concurrent' = FALSE
                /\ ret' = [scope |-> TRUE, err |-> "nil", input |-> "none"]
    /\ UNCHANGED <<store, machine, awsCluster, ownerMachine, storeAtClose,
                   nOther, nSet>>

\* A method that only reads: it returns val.
Reads(op, val) ==
    /\ scope = "open"
    /\ lastOp' = Call(op, <<>>)
    /\ ret' = val
    /\ UNCHANGED <<store, machine, before, scope, awsCluster, ownerMachine,
                   storeAtClose, concurrent, nOther, nSet>>

\* A method that assigns to m.AWSMachine and returns nothing.
Assigns(op, arg, m) ==
    /\ scope = "open"
    /\ nSet < MaxSetters
    /\ machine' = m
    /\ lastOp' = Call(op, arg)
    /\ ret' = None
    /\ nSet' = nSet + 1
    /\ UNCHANGED <<store, before, scope, awsCluster, ownerMachine, storeAtClose,
                   concurrent, nOther>>

OpName == Reads("Name", Name(machine))

OpNamespace == Reads("Namespace", Namespace(machine))

OpIsControlPlane == Reads("IsControlPlane", IsControlPlane(ownerMachine))

OpRole == Reads("Role", Role(ownerMachine))

OpGetInstanceID == Reads("GetInstanceID", GetInstanceID(machine))

OpGetProviderID == Reads("GetProviderID", GetProviderID(machine))

OpGetInstanceState == Reads("GetInstanceState", GetInstanceState(machine))

OpAdditionalTags == Reads("AdditionalTags", AdditionalTags(awsCluster, machine))

OpSetProviderID(ids) ==
    \E v \in ids : Assigns("SetProviderID", <<v>>, SetProviderID(machine, v))

OpSetInstanceState ==
    \E v \in InstanceStates :
        Assigns("SetInstanceState", <<v>>, SetInstanceState(machine, v))

\* Mutant of OpSetReady: the flag is written to the API server at once.
OpSetReadyWritesThrough ==
    /\ scope = "open"
    /\ nSet < MaxSetters
    /\ machine' = SetReady(machine)
    /\ store' = [store EXCEPT !.ready = TRUE]
    /\ lastOp' = Call("SetReady", <<>>)
    /\ ret' = None
    /\ nSet' = nSet + 1
    /\ UNCHANGED <<before, scope, awsCluster, ownerMachine, storeAtClose,
                   concurrent, nOther>>

OpSetReady == Assigns("SetReady", <<>>, SetReady(machine))

OpSetErrorMessage ==
    \E v \in ErrorMessages :
        Assigns("SetErrorMessage", <<v>>, SetErrorMessage(machine, v))

OpSetErrorReason ==
    \E v \in ErrorReasons :
        Assigns("SetErrorReason", <<v>>, SetErrorReason(machine, v))

OpSetAnnotation ==
    \E key \in Keys, value \in Vals :
        Assigns("SetAnnotation", <<key, value>>, SetAnnotation(machine, key, value))

OpSetAddresses ==
    \E addrs \in AddressLists :
        Assigns("SetAddresses", <<addrs>>, SetAddresses(machine, addrs))

\* What Close leaves alone, and what it records.
CloseFrame ==
    /\ storeAtClose' = store
    /\ scope' = "closed"
    /\ lastOp' = Call("Close", <<>>)
    /\ UNCHANGED <<machine, before, awsCluster, ownerMachine, concurrent,
                   nOther, nSet>>

\* Mutant of OpClose: the whole record is written with one Update.
OpCloseUpdates ==
    /\ scope = "open"
    /\ \E ok \in BOOLEAN :
         /\ store' = IF ok THEN ToUnstructured(machine) ELSE store
         /\ ret' = [err |-> ~ok, resErr |-> ~ok, statErr |-> ~ok]
    /\ CloseFrame

\* Mutant of OpClose: the helper's snapshot is the live record, not a copy.
OpCloseAliasedSnapshot ==
    /\ scope = "open"
    /\ \E resOK \in BOOLEAN, statOK \in BOOLEAN :
         LET r == HelperPatch(store, ToUnstructured(machine), machine, resOK, statOK)
         IN  /\ store' = r.store
             /\ ret' = [err |-> r.resErr \/ r.statErr,
                        resErr |-> r.resErr, statErr |-> r.statErr]
    /\ CloseFrame

\* Mutant of OpClose: a rejected call is sent again and accepted, and the
\* first error is still returned.
OpCloseRetries ==
    /\ scope = "open"
    /\ \E resOK \in BOOLEAN, statOK \in BOOLEAN :
         LET r == HelperPatch(store, before[1], machine, resOK, statOK)
         IN  /\ store' = HelperPatch(store, before[1], machine, TRUE, TRUE).store
             /\ ret' = [err |-> r.resErr \/ r.statErr,
                        resErr |-> r.resErr, statErr |-> r.statErr]
    /\ CloseFrame

\* Close: m.patchHelper.Patch(ctx, m.AWSMachine); the error it returns is
\* the aggregate of the errors of the two calls. The reconciler closes the
\* scope when its iteration ends, and the scope is not used afterwards.
OpClose ==
    /\ scope = "open"
    /\ \E resOK \in BOOLEAN, statOK \in BOOLEAN :
         LET r == HelperPatch(store, before[1], machine, resOK, statOK)
         IN  /\ store' = r.store
             /\ ret' = [err |-> r.resErr \/ r.statErr,
                        resErr |-> r.resErr, statErr |-> r.statErr]
    /\ CloseFrame

\* Another actor (a user, another controller) writes the stored AWSMachine.
OtherWrites == {"annotation k1", "annotation k2", "providerID", "instanceState"}
OtherWriteTo(st, w) ==
    CASE w = "annotation k1" ->
           [st EXCEPT !.annotations = MapPut(@, "k1", OtherVal)]
      [] w = "annotation k2" ->
           [st EXCEPT !.annotations = MapPut(@, "k2", OtherVal)]
      [] w = "providerID" -> [st EXCEPT !.providerID = Some(PidOther)]
      [] w = "instanceState" -> [st EXCEPT !.instanceState = Some("stopped")]

OtherWrite ==
    /\ nOther < MaxOtherWrites
    /\ scope # "closed"
    /\ \E w \in OtherWrites :
        /\ store' = OtherWriteTo(store, w)
        /\ lastOp' = Call("OtherWrite", <<w>>)
    /\ nOther' = nOther + 1
    /\ concurrent' = (concurrent \/ scope = "open")
    /\ ret' = None
    /\ UNCHANGED <<machine, before, scope, awsCluster, ownerMachine,
                   storeAtClose, nSet>>

(* --------------------------- specifications ---------------------------- *)

TheOwner == [labels |-> MapOf([k \in {ControlPlaneLabel} |-> "true"])]

\* What every specification starts from, once the records are chosen: the
\* AWSMachine was just fetched and no scope exists yet.
Fetched(rec, cluster, owner) ==
    /\ store = ToUnstructured(rec)
    /\ machine = rec
    /\ before = None
    /\ scope = "none"
    /\ awsCluster = cluster
    /\ ownerMachine = owner
    /\ lastOp = Call("fetch", <<>>)
    /\ ret = None
    /\ storeAtClose = ToUnstructured(rec)
    /\ concurrent = FALSE
    /\ nOther = 0
    /\ nSet = 0
    /\ calls = <<>>

\* One reconcile iteration over a freshly fetched AWSMachine.
Init ==
    \E rec \in InitRecords :
        Fetched(rec, [additionalTags |-> ClusterTagsExample], TheOwner)

\* The scope's writes, with another actor writing the stored record.
Next ==
    \/ OpNewMachineScope /\ UNCHANGED calls
    \/ OpSetProviderID(ProviderIDs) /\ UNCHANGED calls
    \/ OpSetInstanceState /\ UNCHANGED calls
    \/ OpSetReady /\ UNCHANGED calls
    \/ OpSetErrorMessage /\ UNCHANGED calls
    \/ OpSetErrorReason /\ UNCHANGED calls
    \/ OpSetAnnotation /\ UNCHANGED calls
    \/ OpSetAddresses /\ UNCHANGED calls
    \/ OpClose /\ UNCHANGED calls
    \/ OtherWrite /\ UNCHANGED calls

Spec == Init /\ [][Next]_vars

\* Every method of the scope, the scope being the only writer.
NextMethods ==
    \/ OpNewMachineScope /\ UNCHANGED calls
    \/ OpName /\ UNCHANGED calls
    \/ OpNamespace /\ UNCHANGED calls
    \/ OpIsControlPlane /\ UNCHANGED calls
    \/ OpRole /\ UNCHANGED calls
    \/ OpGetInstanceID /\ UNCHANGED calls
    \/ OpGetProviderID /\ UNCHANGED calls
    \/ OpSetProviderID(ProviderIDs) /\ UNCHANGED calls
    \/ OpGetInstanceState /\ UNCHANGED calls
    \/ OpSetInstanceState /\ UNCHANGED calls
    \/ OpSetReady /\ UNCHANGED calls
    \/ OpSetErrorMessage /\ UNCHANGED calls
    \/ OpSetErrorReason /\ UNCHANGED calls
    \/ OpSetAnnotation /\ UNCHANGED calls
    \/ OpSetAddresses /\ UNCHANGED calls
    \/ OpAdditionalTags /\ UNCHANGED calls
    \/ OpClose /\ UNCHANGED calls

SpecMethods == Init /\ [][NextMethods]_vars

\* The scope as the only writer: the setters, recorded in calls, and Close.
NextCommit ==
    \/ OpNewMachineScope /\ UNCHANGED calls
    \/ OpSetProviderID(ProviderIDs) /\ calls' = Append(calls, lastOp')
    \/ OpSetInstanceState /\ calls' = Append(calls, lastOp')
    \/ OpSetReady /\ calls' = Append(calls, lastOp')
    \/ OpSetErrorMessage /\ calls' = Append(calls, lastOp')
    \/ OpSetErrorReason /\ calls' = Append(calls, lastOp')
    \/ OpSetAnnotation /\ calls' = Append(calls, lastOp')
    \/ OpSetAddresses /\ calls' = Append(calls, lastOp')
    \/ OpClose /\ UNCHANGED calls

SpecCommit == Init /\ [][NextCommit]_vars

\* Every owner Machine: no labels, and every labelling over the control
\* plane label and another one.
LabelKeys == {ControlPlaneLabel, "other"}
LabelVals == {"", "true"}
OwnerMachines ==
    {[labels |-> NilMap]} \cup
    {[labels |-> MapOf(f)] : f \in UNION {[S -> LabelVals] : S \in SUBSET LabelKeys}}

InitRole ==
    \E rec \in InitRecords, owner \in OwnerMachines :
        Fetched(rec, [additionalTags |-> ClusterTagsExample], owner)

NextRole ==
    \/ OpNewMachineScope /\ UNCHANGED calls
    \/ OpIsControlPlane /\ UNCHANGED calls
    \/ OpRole /\ UNCHANGED calls
    \/ OpSetReady /\ UNCHANGED calls
    \/ OpClose /\ UNCHANGED calls

SpecRole == InitRole /\ [][NextRole]_vars

\* Every pair of additional-tag maps: nil, empty, and every map over TagKeys.
TagMaps ==
    {NilMap} \cup
    {MapOf(f) : f \in UNION {[S -> TagVals] : S \in SUBSET TagKeys}}

InitTags ==
    \E clusterTags \in TagMaps \cup {ClusterTagsExample},
       machineTags \in TagMaps \cup {MachineTagsExample} :
        Fetched([BlankRecord EXCEPT !.additionalTags = machineTags],
                [additionalTags |-> clusterTags], TheOwner)

NextTags ==
    \/ OpNewMachineScope /\ UNCHANGED calls
    \/ OpAdditionalTags /\ UNCHANGED calls
    \/ OpSetAnnotation /\ UNCHANGED calls
    \/ OpName /\ UNCHANGED calls

SpecTags == InitTags /\ [][NextTags]_vars

\* Every provider ID string of at most MaxLen characters.
RECURSIVE Strings(_)
Strings(n) ==
    IF n = 0 THEN {<<>>}
    ELSE LET shorter == Strings(n - 1)
         IN  shorter \cup {Append(s, c) : s \in {t \in shorter : Len(t) = n - 1},
                                          c \in Chars}
\* ... and some longer ones: path segments, a trailing slash.
LongProviderIDs ==
    {PidGood, PidOther,
     <<"a", ":", "/", "/", "/", "a">>,
     <<"a", ":", "/", "/", "a", "/">>,
     <<"a", "a", ":", "/", "/", "a", "/", "a">>}
AllProviderIDs == Strings(MaxLen) \cup LongProviderIDs

InitProviderID ==
    Fetched(BlankRecord, [additionalTags |-> ClusterTagsExample], TheOwner)

NextProviderID ==
    \/ OpNewMachineScope /\ UNCHANGED calls
    \/ OpSetProviderID(AllProviderIDs) /\ UNCHANGED calls
    \/ OpGetProviderID /\ UNCHANGED calls
    \/ OpGetInstanceID /\ UNCHANGED calls

SpecProviderID == InitProviderID /\ [][NextProviderID]_vars

(* =============================== claims ================================ *)

ReadOps == {"Name", "Namespace", "GetProviderID", "GetInstanceID",
            "GetInstanceState", "IsControlPlane", "Role", "AdditionalTags"}
LeafFields == {"providerID", "instanceState", "ready", "errorReason",
               "errorMessage", "addresses"}

\* The scope changed field f (annotation k) since its snapshot.
ScopeChanged(f) == ToUnstructured(machine)[f] # before[1][f]
ScopeChangedKey(k) ==
    /\ Has(machine.annotations, k)
    /\ ~Has(before[1].annotations, k)
         \/ before[1].annotations.kv[k] # machine.annotations.kv[k]
\* Annotation k is the same in records a and b: absent in both, or equal.
SameKey(a, b, k) ==
    /\ Has(a.annotations, k) <=> Has(b.annotations, k)
    /\ Has(a.annotations, k) => a.annotations.kv[k] = b.annotations.kv[k]

Applied(m, c) ==
    CASE c.op = "SetProviderID" -> [m EXCEPT !.providerID = <<c.arg[1]>>]
      [] c.op = "SetInstanceState" -> [m EXCEPT !.instanceState = <<c.arg[1]>>]
      [] c.op = "SetReady" -> [m EXCEPT !.ready = TRUE]
      [] c.op = "SetErrorMessage" -> [m EXCEPT !.errorMessage = <<c.arg[1]>>]
      [] c.op = "SetErrorReason" -> [m EXCEPT !.errorReason = <<c.arg[1]>>]
      [] c.op = "SetAnnotation" ->
           [m EXCEPT !.annotations =
               [isNil |-> FALSE,
                kv |-> [k \in (DOMAIN m.annotations.kv) \cup {c.arg[1]} |->
                          IF k = c.arg[1] THEN c.arg[2] ELSE m.annotations.kv[k]]]]
      [] c.op = "SetAddresses" -> [m EXCEPT !.addresses = c.arg[1]]

RECURSIVE AppliedAll(_, _)
AppliedAll(m, cs) ==
    IF cs = <<>> THEN m ELSE AppliedAll(Applied(m, Head(cs)), Tail(cs))

\* C2: with no other writer, after N setter calls and one successful Close
\* the stored record is the snapshot taken in NewMachineScope with the N
\* mutations applied in call order.
C2_CloseWritesCumulativeDiff ==
    (scope = "closed" /\ ~ret.err /\ nOther = 0) =>
        store = AppliedAll(before[1], calls)

C2_Witness ==
    /\ scope = "closed" /\ ~ret.err /\ nOther = 0
    /\ Len(calls) >= 3
    /\ NonStatus(store) # NonStatus(before[1])
    /\ Status(store) # Status(before[1])

C4_NoWriteBeforeClose ==
    [][lastOp'.op \notin {"Close", "OtherWrite"} => store' = store]_vars

C4_Witness ==
    /\ scope = "open" /\ nSet >= 2 /\ nOther = 0
    /\ NonStatus(ToUnstructured(machine)) # NonStatus(store)
    /\ Status(ToUnstructured(machine)) # Status(store)

\* The first input of the check order that is absent.
FirstAbsent(given) ==
    Inputs[CHOOSE i \in 1..Len(Inputs) :
              Inputs[i] \notin given /\ \A j \in 1..(i - 1) : Inputs[j] \in given]

\* C5: NewMachineScope without one or more required inputs returns no scope
\* and an error naming the first absent one in the order client, machine,
\* cluster, aws machine, aws cluster, and creates no patch helper.
C5_MissingInputRejected ==
    (lastOp.op = "NewMachineScope"
        /\ lastOp.arg # {Inputs[i] : i \in 1..Len(Inputs)}) =>
        /\ ret.scope = FALSE
        /\ ret.err = "required"
        /\ ret.input = FirstAbsent(lastOp.arg)
        /\ scope = "none"
        /\ before = None

C5_Witness ==
    /\ lastOp.op = "NewMachineScope"
    /\ lastOp.arg = {"client", "cluster", "aws machine"}
    /\ ret.input = "machine"

\* C6: AdditionalTags returns a non-nil map whose keys are those of the
\* cluster's and the machine's additional tags, each with the machine's
\* value when the machine has the key and the cluster's otherwise; the tag
\* maps themselves are left as they were, so a repeated call returns the same.
C6_MachineTagsOverride ==
    lastOp.op = "AdditionalTags" =>
        LET c == awsCluster.additionalTags
            m == machine.additionalTags
        IN  /\ ~ret.isNil
            /\ DOMAIN ret.kv = (DOMAIN c.kv) \cup (DOMAIN m.kv)
            /\ \A k \in DOMAIN ret.kv :
                  ret.kv[k] = IF k \in DOMAIN m.kv THEN m.kv[k] ELSE c.kv[k]
            /\ (c = ClusterTagsExample /\ m = MachineTagsExample) =>
                  ret.kv = [k \in {"env", "team"} |->
                              IF k = "env" THEN "dev" ELSE "x"]
            /\ store.additionalTags = OmitEmpty(m)

C6_Witness ==
    /\ lastOp.op = "AdditionalTags"
    /\ awsCluster.additionalTags = ClusterTagsExample
    /\ machine.additionalTags = MachineTagsExample
    /\ ret.kv["env"] = "dev" /\ ret.kv["team"] = "x"

\* The owner Machine carries a role marker: a non-empty control plane label.
HasRoleMarker(owner) ==
    \E k \in DOMAIN owner.labels.kv : k = ControlPlaneLabel /\ owner.labels.kv[k] # ""

\* C7: Role returns "control-plane" exactly when IsControlPlane returns true
\* and "node" otherwise, for every owner Machine, one without the marker
\* included.
C7_RoleAgreesWithIsControlPlane ==
    /\ lastOp.op = "Role" =>
          /\ ret \in {"control-plane", "node"}
          /\ (ret = "control-plane") <=> IsControlPlane(ownerMachine)
          /\ ~HasRoleMarker(ownerMachine) => ret = "node"
    /\ lastOp.op = "IsControlPlane" =>
          /\ ret = HasRoleMarker(ownerMachine)
          /\ ret <=> Role(ownerMachine) = "control-plane"

C7_Witness ==
    /\ lastOp.op = "Role"
    /\ ret = "node"
    /\ Has(ownerMachine.labels, ControlPlaneLabel)

\* A provider ID of the form scheme://...identifier: no colon before the
\* first "://", a scheme and an identifier that are not empty.
WellFormed(v) ==
    /\ \E i \in 2..Len(v) :
          /\ \A j \in 1..(i - 1) : v[j] # ":"
          /\ Len(v) >= i + 2
          /\ v[i] = ":" /\ v[i + 1] = "/" /\ v[i + 2] = "/"
    /\ v[Len(v)] # "/"
\* Its identifier: what follows the last slash.
Identifier(v) ==
    LET k == CHOOSE i \in 1..Len(v) : v[i] = "/" /\ \A j \in (i + 1)..Len(v) : v[j] # "/"
    IN  [i \in 1..(Len(v) - k) |-> v[k + i]]
ExpectedInstanceID(v) == IF WellFormed(v) THEN <<Identifier(v)>> ELSE <<>>

\* C8: after SetProviderID(v), GetProviderID returns v and GetInstanceID the
\* identifier of v when v is well formed and no value otherwise; with no
\* provider ID stored they return "" and no value.
C8_InstanceIDFollowsProviderID ==
    /\ lastOp.op = "SetProviderID" =>
          /\ GetProviderID(machine) = lastOp.arg[1]
          /\ GetInstanceID(machine) = ExpectedInstanceID(lastOp.arg[1])
    /\ lastOp.op = "GetProviderID" =>
          ret = IF machine.providerID = <<>> THEN <<>> ELSE machine.providerID[1]
    /\ lastOp.op = "GetInstanceID" =>
          ret = IF machine.providerID = <<>> THEN <<>>
                ELSE ExpectedInstanceID(machine.providerID[1])
    /\ GetInstanceID([machine EXCEPT !.providerID = <<PidGood>>]) = << <<"i">> >>

C8_Witness ==
    /\ lastOp.op = "GetInstanceID"
    /\ nSet >= 2
    /\ machine.providerID = << <<"a", ":", "/", "/", "a">> >>
    /\ ret = << <<"a">> >>

\* C9: a step that is SetAnnotation(k, v) leaves the annotations non-nil
\* with k mapped to v and every other key as it was.
C9_SetAnnotationUpserts ==
    [][lastOp'.op = "SetAnnotation" =>
          LET k == lastOp'.arg[1]
              v == lastOp'.arg[2]
          IN  /\ ~machine'.annotations.isNil
              /\ Has(machine'.annotations, k)
              /\ machine'.annotations.kv[k] = v
              /\ \A j \in (Keys \cup DOMAIN machine.annotations.kv
                                \cup DOMAIN machine'.annotations.kv) \ {k} :
                    SameKey(machine', machine, j)]_vars

C9_Witness ==
    /\ lastOp.op = "SetAnnotation"
    /\ nSet >= 3
    /\ lastOp.arg = <<"k1", "v2">>
    /\ machine.annotations.kv = [k \in {"k1", "k2"} |-> "v2"]

\* C10: a step changes at most the field its method is named for; the
\* methods that read change nothing, the ready flag never goes back to
\* false, and the cluster record, the owner Machine and the additional tags
\* are never changed.
C10_Frame ==
    LET op == lastOp'.op
        a == lastOp'.arg
    IN  /\ op = "SetProviderID" => machine' = [machine EXCEPT !.providerID = <<a[1]>>]
        /\ op = "SetInstanceState" =>
              machine' = [machine EXCEPT !.instanceState = <<a[1]>>]
        /\ op = "SetReady" => machine' = [machine EXCEPT !.ready = TRUE]
        /\ op = "SetErrorMessage" =>
              machine' = [machine EXCEPT !.errorMessage = <<a[1]>>]
        /\ op = "SetErrorReason" =>
              machine' = [machine EXCEPT !.errorReason = <<a[1]>>]
        /\ op = "SetAnnotation" =>
              [machine' EXCEPT !.annotations = NilMap]
                  = [machine EXCEPT !.annotations = NilMap]
        /\ op = "SetAddresses" => machine' = [machine EXCEPT !.addresses = a[1]]
        /\ op \in ReadOps \cup {"Close", "NewMachineScope", "OtherWrite"} =>
              machine' = machine
        /\ op \in ReadOps => store' = store /\ before' = before
        /\ machine.ready => machine'.ready
        /\ awsCluster' = awsCluster
        /\ ownerMachine' = ownerMachine
        /\ machine'.additionalTags = machine.additionalTags

C10_FieldsAreIndependent == [][C10_Frame]_vars

C10_Witness ==
    /\ lastOp.op = "SetErrorMessage"
    /\ machine.errorReason = None
    /\ machine.ready
    /\ machine.addresses = <<"a2">>

====
